---- MODULE Spec2Model ----
(***************************************************************************)
(* The tap-targets gatherer of lighthouse-core                             *)
(* (gather/gatherers/seo/tap-targets.js): the in-page functions            *)
(* nodeIsVisible, getClientRects, getVisibleClientRects,                   *)
(* filterClientRectsWithinAncestorsVisibleScrollArea, nodeIsInTextBlock,   *)
(* truncate, memoize and the loop of gatherTapTargets, run over one        *)
(* immutable snapshot of a document (tree, computed styles, geometry,      *)
(* text).                                                                  *)
(***************************************************************************)
EXTENDS Integers, Sequences, FiniteSets, TLC

(***************************************************************************)
(* Bounds of the model.                                                    *)
(***************************************************************************)
\* number of elements of the document; 1 is the root (HTML), 2 is BODY
NumElements == 5
\* longest string given to truncate
MaxStrLen == 4
\* largest maxLength given to truncate
MaxLength == 4
\* number of calls made to a memoized function
MaxCalls == 3
\* number of elements below BODY that differ from the plain button
MaxStyled == 2

VARIABLES
    parentElement,  \* element -> its parent element, null for the root
    nodes,          \* element -> its tag, attributes, computed style, geometry, text
    pc,             \* where the run is: "loop", "done", "memo", "truncate", "truncated"
    i,              \* index of the next element of the query result in gatherTapTargets
    targets,        \* the array gatherTapTargets accumulates and returns
    cache,          \* the Map of one memoize() closure: cache key -> stored result
    calls,          \* the calls made to fnWithCaching so far: <<argument, value returned>>
    str,            \* argument of truncate
    maxLength,      \* argument of truncate
    out             \* value returned by truncate

vars == <<parentElement, nodes, pc, i, targets, cache, calls, str, maxLength, out>>

(***************************************************************************)
(* The document: elements, DOM rectangles, text.                           *)
(***************************************************************************)
null == 0
Elements == 1..NumElements
ROOT == 1
BODY == 2

ELEMENT_NODE == 1
TEXT_NODE == 3

\* a DOMRect as the page hands it out (it also carries x and y)
DOMRect(l, t, r, b) ==
    [left |-> l, top |-> t, right |-> r, bottom |-> b,
     width |-> r - l, height |-> b - t, x |-> l, y |-> t]

Small == DOMRect(0, 0, 2, 2)
Big == DOMRect(0, 0, 4, 4)
Low == DOMRect(0, 2, 2, 4)
Wide == DOMRect(0, 0, 4, 2)
Zero == DOMRect(1, 1, 1, 1)

\* characters of text content: "x" is a letter, " " is white space
T(n, c) == [k \in 1..n |-> c]
Prose == <<" ">> \o T(4, "x") \o <<" ">>

Style(d, v, ox, oy) == [display |-> d, visibility |-> v, overflowX |-> ox, overflowY |-> oy]

\* an element laid out normally: a block box of 2x2 with one rectangle, no text
Plain ==
    [tagName |-> "BUTTON", role |-> "", attributes |-> <<>>,
     style |-> Style("block", "visible", "visible", "visible"),
     clientWidth |-> 2, clientHeight |-> 2,
     clientRects |-> <<Small>>, boundingClientRect |-> Small,
     leadText |-> <<>>, tailText |-> <<>>]

(***************************************************************************)
(* DOM accessors over the snapshot.                                        *)
(***************************************************************************)
getComputedStyle(node) == nodes[node].style
tagName(node) == nodes[node].tagName
getBoundingClientRect(node) == nodes[node].boundingClientRect

\* node.children: the element children, in document order
children(node) == SelectSeq([e \in Elements |-> e], LAMBDA e : parentElement[e] = node)

ElementChild(e) == [nodeType |-> ELEMENT_NODE, ref |-> e, data |-> <<>>]
TextChild(d) == [nodeType |-> TEXT_NODE, ref |-> null, data |-> d]
TextNodes(d) == IF d = <<>> THEN <<>> ELSE <<TextChild(d)>>

\* node.childNodes: the text node that opens the element (leadText), then each
\* element child followed by the text node that follows it (its tailText)
RECURSIVE childNodesFrom(_)
childNodesFrom(cs) ==
    IF cs = <<>> THEN <<>>
    ELSE <<ElementChild(Head(cs))>> \o TextNodes(nodes[Head(cs)].tailText)
         \o childNodesFrom(Tail(cs))

childNodes(node) == TextNodes(nodes[node].leadText) \o childNodesFrom(children(node))

\* Node.textContent: the data of a text node, the concatenated text of the
\* descendants of an element
RECURSIVE textContent(_)
RECURSIVE textContentOfAll(_)
textContent(child) ==
    IF child.nodeType = TEXT_NODE THEN child.data
    ELSE textContentOfAll(childNodes(child.ref))

textContentOfAll(cs) ==
    IF cs = <<>> THEN <<>> ELSE textContent(Head(cs)) \o textContentOfAll(Tail(cs))

\* String.prototype.trim: white space removed at both ends
RECURSIVE trimStart(_)
trimStart(s) == IF s # <<>> /\ Head(s) = " " THEN trimStart(Tail(s)) ELSE s

RECURSIVE trimEnd(_)
trimEnd(s) ==
    IF s # <<>> /\ s[Len(s)] = " " THEN trimEnd(SubSeq(s, 1, Len(s) - 1)) ELSE s

trim(s) == trimEnd(trimStart(s))

\* String.prototype.slice(begin, end): a negative index counts from the end
sliceIndex(s, k) ==
    IF k < 0 THEN (IF Len(s) + k < 0 THEN 0 ELSE Len(s) + k)
    ELSE (IF k > Len(s) THEN Len(s) ELSE k)

slice(s, begin, end) == SubSeq(s, sliceIndex(s, begin) + 1, sliceIndex(s, end))

\* rectContains of lib/client-rect-functions: all four edges of cr2 within cr1
rectContains(cr1, cr2) ==
    /\ cr2.top >= cr1.top
    /\ cr2.right <= cr1.right
    /\ cr2.bottom <= cr1.bottom
    /\ cr2.left >= cr1.left

(***************************************************************************)
(* tap-targets.js                                                          *)
(***************************************************************************)
TARGET_SELECTORS ==
    [tags |-> {"BUTTON", "A", "INPUT", "TEXTAREA", "SELECT", "OPTION"},
     roles |-> {"button", "checkbox", "link", "menuitem", "menuitemcheckbox",
                "menuitemradio", "option", "scrollbar", "slider", "spinbutton"}]

allClientRectsEmpty(clientRects) ==
    \/ Len(clientRects) = 0
    \/ \A k \in 1..Len(clientRects) :
          clientRects[k].width = 0 /\ clientRects[k].height = 0

RECURSIVE nodeIsVisible(_)
\* nodeIsVisible without the test that stops the walk below the root element
nodeIsVisible_WalksIntoRoot(node) ==
    LET s == getComputedStyle(node)
        parent == parentElement[node]
    IN  IF \/ s.display = "none"
           \/ /\ s.visibility = "collapse"
              /\ tagName(node) \in {"TR", "TBODY", "COL", "COLGROUP"}
        THEN FALSE
        ELSE IF /\ s.display \in {"block", "inline-block"}
                /\ \/ nodes[node].clientWidth = 0 /\ s.overflowX = "hidden"
                   \/ nodes[node].clientHeight = 0 /\ s.overflowY = "hidden"
        THEN FALSE
        ELSE IF parent # null /\ ~nodeIsVisible(parent)
        THEN FALSE
        ELSE TRUE

nodeIsVisible(node) ==
    LET s == getComputedStyle(node)
        parent == parentElement[node]
    IN  IF \/ s.display = "none"
           \/ /\ s.visibility = "collapse"
              /\ tagName(node) \in {"TR", "TBODY", "COL", "COLGROUP"}
        THEN FALSE
        ELSE IF /\ s.display \in {"block", "inline-block"}
                /\ \/ nodes[node].clientWidth = 0 /\ s.overflowX = "hidden"
                   \/ nodes[node].clientHeight = 0 /\ s.overflowY = "hidden"
        THEN FALSE
        ELSE IF parent # null /\ tagName(parent) # "HTML" /\ ~nodeIsVisible(parent)
        THEN FALSE
        ELSE TRUE

\* the plain object a DOMRect is converted to
plainRect(clientRect) ==
    [width |-> clientRect.width, height |-> clientRect.height,
     left |-> clientRect.left, top |-> clientRect.top,
     right |-> clientRect.right, bottom |-> clientRect.bottom]

RECURSIVE getClientRects(_, _)
RECURSIVE getClientRectsOfChildren(_)
getClientRects(node, includeChildren) ==
    LET own == nodes[node].clientRects
        clientRects == [k \in 1..Len(own) |-> plainRect(own[k])]
    IN  IF includeChildren
        THEN clientRects \o getClientRectsOfChildren(children(node))
        ELSE clientRects

getClientRectsOfChildren(cs) ==
    IF cs = <<>> THEN <<>>
    ELSE getClientRects(Head(cs), TRUE) \o getClientRectsOfChildren(Tail(cs))

RECURSIVE filterClientRectsWithinAncestorsVisibleScrollArea(_, _)
filterClientRectsWithinAncestorsVisibleScrollArea(node, clientRects) ==
    LET parent == parentElement[node]
    IN  IF parent = null THEN clientRects
        ELSE LET parentBCR == getBoundingClientRect(parent)
                 filtered ==
                     IF getComputedStyle(parent).overflowY # "visible"
                     THEN SelectSeq(clientRects, LAMBDA cr : rectContains(parentBCR, cr))
                     ELSE clientRects
             IN  IF /\ parentElement[parent] # null
                    /\ tagName(parentElement[parent]) # "HTML"
                 THEN filterClientRectsWithinAncestorsVisibleScrollArea(
                          parentElement[parent], filtered)
                 ELSE filtered

\* getVisibleClientRects taking one hidden overflow for both
getVisibleClientRects_EitherOverflow(node) ==
    IF ~nodeIsVisible(node) THEN <<>>
    ELSE LET s == getComputedStyle(node)
             clientRects == getClientRects(node, TRUE)
         IN  IF /\ allClientRectsEmpty(clientRects)
                /\ \/ s.overflowX = "hidden" \/ s.overflowY = "hidden"
                   \/ Len(children(node)) = 0
             THEN <<>>
             ELSE filterClientRectsWithinAncestorsVisibleScrollArea(node, clientRects)

getVisibleClientRects(node) ==
    IF ~nodeIsVisible(node) THEN <<>>
    ELSE LET s == getComputedStyle(node)
             clientRects == getClientRects(node, TRUE)
         IN  IF /\ allClientRectsEmpty(clientRects)
                /\ \/ s.overflowX = "hidden" /\ s.overflowY = "hidden"
                   \/ Len(children(node)) = 0
             THEN <<>>
             ELSE filterClientRectsWithinAncestorsVisibleScrollArea(node, clientRects)

Ellipsis == "..."

\* truncate keeping maxLength characters before the ellipsis
truncate_KeepsMaxLength(s, n) ==
    IF Len(s) <= n THEN s ELSE slice(s, 0, n) \o <<Ellipsis>>

truncate(s, n) ==
    IF Len(s) <= n THEN s ELSE slice(s, 0, n - 1) \o <<Ellipsis>>

\* isInline for an element, which is all nodeIsInTextBlock is called with: the
\* candidates of the query and their parentElements (a text node would be inline)
isInline(node) ==
    \/ getComputedStyle(node).display = "inline"
    \/ getComputedStyle(node).display = "inline-block"

\* hasTextNodeSiblingsFormingTextBlock without the comparison of the text lengths
hasTextNodeSiblingsFormingTextBlock_NoLengthTest(node) ==
    IF parentElement[node] = null THEN FALSE
    ELSE LET potentialSiblings == childNodes(parentElement[node])
         IN  \E k \in 1..Len(potentialSiblings) :
                 /\ potentialSiblings[k] # ElementChild(node)
                 /\ potentialSiblings[k].nodeType = TEXT_NODE
                 /\ Len(trim(textContent(potentialSiblings[k]))) > 0

\* hasTextNodeSiblingsFormingTextBlock with the comparison off by one
hasTextNodeSiblingsFormingTextBlock_OffByOne(node) ==
    IF parentElement[node] = null THEN FALSE
    ELSE LET nodeText == textContent(ElementChild(node))
             parentText == textContent(ElementChild(parentElement[node]))
             potentialSiblings == childNodes(parentElement[node])
         IN  IF Len(parentText) - Len(nodeText) <= 5 THEN FALSE
             ELSE \E k \in 1..Len(potentialSiblings) :
                      /\ potentialSiblings[k] # ElementChild(node)
                      /\ potentialSiblings[k].nodeType = TEXT_NODE
                      /\ Len(trim(textContent(potentialSiblings[k]))) > 0

hasTextNodeSiblingsFormingTextBlock(node) ==
    IF parentElement[node] = null THEN FALSE
    ELSE LET nodeText == textContent(ElementChild(node))
             parentText == textContent(ElementChild(parentElement[node]))
             potentialSiblings == childNodes(parentElement[node])
         IN  IF Len(parentText) - Len(nodeText) < 5 THEN FALSE
             ELSE \E k \in 1..Len(potentialSiblings) :
                      /\ potentialSiblings[k] # ElementChild(node)
                      /\ potentialSiblings[k].nodeType = TEXT_NODE
                      /\ Len(trim(textContent(potentialSiblings[k]))) > 0

RECURSIVE nodeIsInTextBlock(_)
nodeIsInTextBlock(node) ==
    IF ~isInline(node) THEN FALSE
    ELSE IF hasTextNodeSiblingsFormingTextBlock(node) THEN TRUE
    ELSE IF parentElement[node] # null THEN nodeIsInTextBlock(parentElement[node])
    ELSE FALSE

(***************************************************************************)
(* What the page supplies to gatherTapTargets: the selector query, the     *)
(* serialised markup and the two locators of a node.                       *)
(***************************************************************************)
matchesSelector(node) ==
    \/ tagName(node) \in TARGET_SELECTORS.tags
    \/ nodes[node].role \in TARGET_SELECTORS.roles

\* getElementsInDocument(selector): the matching elements in document order
getElementsInDocument == SelectSeq([e \in Elements |-> e], matchesSelector)

outerHTML(node) ==
    <<"<", tagName(node), ">">> \o textContent(ElementChild(node))
        \o <<"<", "/", tagName(node), ">">>

RECURSIVE indexIn(_, _)
indexIn(cs, child) == IF Head(cs) = child THEN 0 ELSE 1 + indexIn(Tail(cs), child)

RECURSIVE getNodePath(_)
getNodePath(node) ==
    IF parentElement[node] = null THEN <<>>
    ELSE getNodePath(parentElement[node])
         \o <<indexIn(childNodes(parentElement[node]), ElementChild(node)), tagName(node)>>

RECURSIVE getNodeSelector(_)
getNodeSelector(node) ==
    IF parentElement[node] = null THEN <<tagName(node)>>
    ELSE getNodeSelector(parentElement[node])
         \o <<">", tagName(node), indexIn(children(parentElement[node]), node) + 1>>

\* node.getAttribute(name): null when the element has no such attribute
hasAttribute(node, name) == name \in DOMAIN nodes[node].attributes
getAttribute(node, name) == nodes[node].attributes[name]

SnippetMaxLength == 700

TapTarget(node, visibleClientRects) ==
    [clientRects |-> visibleClientRects,
     snippet |-> truncate(outerHTML(node), SnippetMaxLength),
     path |-> getNodePath(node),
     selector |-> getNodeSelector(node),
     href |-> IF hasAttribute(node, "href") THEN getAttribute(node, "href") ELSE <<>>]

\* the callback without the test for an empty list of visible client rects
forEachCallback_PushesEmpty(tgts, node) ==
    IF nodeIsInTextBlock(node) THEN tgts
    ELSE Append(tgts, TapTarget(node, getVisibleClientRects(node)))

\* the callback adding the target at the front of the array
forEachCallback_Unshift(tgts, node) ==
    IF nodeIsInTextBlock(node) THEN tgts
    ELSE LET visibleClientRects == getVisibleClientRects(node)
         IN  IF Len(visibleClientRects) = 0 THEN tgts
             ELSE <<TapTarget(node, visibleClientRects)>> \o tgts

\* the callback gatherTapTargets runs on each element of the query result:
\* the targets array after it ran on node
forEachCallback(tgts, node) ==
    IF nodeIsInTextBlock(node) THEN tgts
    ELSE LET visibleClientRects == getVisibleClientRects(node)
         IN  IF Len(visibleClientRects) = 0 THEN tgts
             ELSE Append(tgts, TapTarget(node, visibleClientRects))

(***************************************************************************)
(* gatherTapTargets, one step per element of the query result.             *)
(***************************************************************************)
SkipInTextBlock ==
    /\ pc = "loop"
    /\ i <= Len(getElementsInDocument)
    /\ nodeIsInTextBlock(getElementsInDocument[i])
    /\ targets' = forEachCallback(targets, getElementsInDocument[i])
    /\ i' = i + 1
    /\ UNCHANGED <<parentElement, nodes, pc, cache, calls, str, maxLength, out>>

SkipNoVisibleClientRects ==
    /\ pc = "loop"
    /\ i <= Len(getElementsInDocument)
    /\ ~nodeIsInTextBlock(getElementsInDocument[i])
    /\ Len(getVisibleClientRects(getElementsInDocument[i])) = 0
    /\ targets' = forEachCallback(targets, getElementsInDocument[i])
    /\ i' = i + 1
    /\ UNCHANGED <<parentElement, nodes, pc, cache, calls, str, maxLength, out>>

PushTarget ==
    /\ pc = "loop"
    /\ i <= Len(getElementsInDocument)
    /\ ~nodeIsInTextBlock(getElementsInDocument[i])
    /\ Len(getVisibleClientRects(getElementsInDocument[i])) # 0
    /\ targets' = forEachCallback(targets, getElementsInDocument[i])
    /\ i' = i + 1
    /\ UNCHANGED <<parentElement, nodes, pc, cache, calls, str, maxLength, out>>

ReturnTargets ==
    /\ pc = "loop"
    /\ i > Len(getElementsInDocument)
    /\ pc' = "done"
    /\ UNCHANGED <<parentElement, nodes, i, targets, cache, calls, str, maxLength, out>>

(***************************************************************************)
(* memoize: fnWithCaching wrapped around nodeIsVisible, the cache keyed by *)
(* the node.                                                               *)
(***************************************************************************)
getCacheKey(args) == args[1]

cacheGet(key) == IF key \in DOMAIN cache THEN <<cache[key]>> ELSE <<>>

\* the value is truthy: present, and not false
truthy(v) == v # <<>> /\ v[1] = TRUE

\* cache.set storing that the key was seen instead of the result
cacheSet_StoresTrue(key, value) ==
    [k \in DOMAIN cache \cup {key} |-> IF k = key THEN TRUE ELSE cache[k]]

cacheSet(key, value) ==
    [k \in DOMAIN cache \cup {key} |-> IF k = key THEN value ELSE cache[k]]

fnWithCachingHit(node) ==
    /\ pc = "memo"
    /\ calls < MaxCalls
    /\ truthy(cacheGet(getCacheKey(<<node>>)))
    /\ calls' = calls + 1
    /\ out' = [arg |-> node, value |-> cacheGet(getCacheKey(<<node>>))[1],
               stored |-> TRUE, hit |-> TRUE]
    /\ UNCHANGED <<parentElement, nodes, pc, i, targets, cache, str, maxLength>>

fnWithCachingMiss(node) ==
    /\ pc = "memo"
    /\ calls < MaxCalls
    /\ ~truthy(cacheGet(getCacheKey(<<node>>)))
    /\ LET result == nodeIsVisible(node)
       IN  /\ cache' = cacheSet(getCacheKey(<<node>>), result)
           /\ out' = [arg |-> node, value |-> result,
                      stored |-> getCacheKey(<<node>>) \in DOMAIN cache, hit |-> FALSE]
    /\ calls' = calls + 1
    /\ UNCHANGED <<parentElement, nodes, pc, i, targets, str, maxLength>>

CallHit == \E node \in Elements : fnWithCachingHit(node)
CallMiss == \E node \in Elements : fnWithCachingMiss(node)

(***************************************************************************)
(* truncate, applied to the string and bound chosen initially.             *)
(***************************************************************************)
TruncateKeeps ==
    /\ pc = "truncate"
    /\ Len(str) <= maxLength
    /\ out' = truncate(str, maxLength)
    /\ pc' = "truncated"
    /\ UNCHANGED <<parentElement, nodes, i, targets, cache, calls, str, maxLength>>

TruncateCuts ==
    /\ pc = "truncate"
    /\ Len(str) > maxLength
    /\ out' = truncate(str, maxLength)
    /\ pc' = "truncated"
    /\ UNCHANGED <<parentElement, nodes, i, targets, cache, calls, str, maxLength>>

(***************************************************************************)
(* The snapshots a run starts from.  The tree is the chain                 *)
(* HTML > BODY > 3 > ... > NumElements, or the same with the last element  *)
(* a sibling of the one before it.  Three families of documents vary the   *)
(* styles that decide visibility, the geometry and overflow that decide    *)
(* clipping, and the inline text; in each, at most MaxStyled of the        *)
(* elements below BODY differ from the plain button.                       *)
(***************************************************************************)
Chain == [e \in Elements |-> e - 1]
LastIsSibling == [e \in Elements |-> IF e = NumElements /\ e > 3 THEN e - 2 ELSE e - 1]
ParentMaps == {Chain, LastIsSibling}

Html == [Plain EXCEPT !.tagName = "HTML", !.clientRects = <<Big>>,
                      !.boundingClientRect = Big, !.clientWidth = 4, !.clientHeight = 4]
Body == [Html EXCEPT !.tagName = "BODY"]

Document(html, body, rest) ==
    [e \in Elements |-> IF e = ROOT THEN html ELSE IF e = BODY THEN body ELSE rest[e]]

\* the assignments of a profile to each element below BODY
Styled(Profiles) ==
    { rest \in [3..NumElements -> Profiles] :
          Cardinality({e \in 3..NumElements : rest[e] # Plain}) <= MaxStyled }

\* styles that decide nodeIsVisible
VisibilityProfiles ==
    { Plain,
      [Plain EXCEPT !.style = Style("none", "visible", "visible", "visible")],
      [Plain EXCEPT !.tagName = "TR", !.role = "button",
                    !.style = Style("table-row", "collapse", "visible", "visible")],
      [Plain EXCEPT !.tagName = "DIV", !.role = "button",
                    !.style = Style("block", "collapse", "visible", "visible")],
      [Plain EXCEPT !.clientWidth = 0,
                    !.style = Style("block", "visible", "hidden", "visible")],
      [Plain EXCEPT !.clientHeight = 0,
                    !.style = Style("inline-block", "visible", "visible", "hidden")],
      [Plain EXCEPT !.tagName = "A", !.clientWidth = 0, !.clientHeight = 0,
                    !.style = Style("inline", "visible", "hidden", "hidden")],
      [Plain EXCEPT !.clientWidth = 0,
                    !.style = Style("block", "visible", "visible", "hidden")] }

HtmlNotDisplayed == [Html EXCEPT !.style = Style("none", "visible", "visible", "visible")]

InitVisibility ==
    /\ parentElement = Chain
    /\ \E html \in {Html, HtmlNotDisplayed}, rest \in Styled(VisibilityProfiles) :
          nodes = Document(html, Body, rest)

\* geometry and overflow that decide getVisibleClientRects
GeometryProfiles ==
    { Plain,
      [Plain EXCEPT !.tagName = "DIV",
                    !.style = Style("block", "visible", "hidden", "scroll")],
      [Plain EXCEPT !.tagName = "DIV", !.clientRects = <<Big>>,
                    !.boundingClientRect = Big, !.clientWidth = 4, !.clientHeight = 4],
      [Plain EXCEPT !.clientRects = <<Low>>, !.boundingClientRect = Low],
      [Plain EXCEPT !.tagName = "A", !.clientRects = <<Zero>>,
                    !.boundingClientRect = Zero, !.clientWidth = 0, !.clientHeight = 0,
                    !.style = Style("inline", "visible", "hidden", "hidden")],
      [Plain EXCEPT !.tagName = "A", !.clientRects = <<Zero>>,
                    !.boundingClientRect = Zero, !.clientWidth = 0, !.clientHeight = 0,
                    !.style = Style("inline", "visible", "hidden", "visible")],
      [Plain EXCEPT !.clientRects = <<>>,
                    !.boundingClientRect = DOMRect(0, 0, 0, 0),
                    !.clientWidth = 0, !.clientHeight = 0,
                    !.style = Style("contents", "visible", "visible", "visible")],
      [Plain EXCEPT !.tagName = "A", !.clientRects = <<Small, Wide, Low>>,
                    !.boundingClientRect = Big, !.clientWidth = 0, !.clientHeight = 0,
                    !.style = Style("inline", "visible", "visible", "visible")] }

HtmlClipping ==
    [Html EXCEPT !.boundingClientRect = Small, !.clientHeight = 2, !.clientWidth = 2,
                 !.style = Style("block", "visible", "visible", "hidden")]

BodyClipping ==
    [Body EXCEPT !.boundingClientRect = Small, !.clientRects = <<Small>>,
                 !.clientHeight = 2, !.clientWidth = 2,
                 !.style = Style("block", "visible", "visible", "hidden")]

GeometryLayouts ==
    { <<Chain, Html, Body>>, <<LastIsSibling, Html, Body>>,
      <<Chain, HtmlClipping, Body>>, <<Chain, Html, BodyClipping>> }

InitGeometry ==
    \E layout \in GeometryLayouts, rest \in Styled(GeometryProfiles) :
        /\ parentElement = layout[1]
        /\ nodes = Document(layout[2], layout[3], rest)

\* inline text around and inside the elements
Link == [Plain EXCEPT !.tagName = "A", !.attributes = [href |-> <<"/">>],
                      !.style = Style("inline", "visible", "visible", "visible")]

TextProfiles ==
    { Plain,
      [Plain EXCEPT !.tagName = "P"],
      [Link EXCEPT !.leadText = T(2, "x")],
      [Link EXCEPT !.leadText = T(2, "x"), !.tailText = Prose],
      [Link EXCEPT !.leadText = T(2, "x"), !.tailText = T(6, " ")],
      [Link EXCEPT !.tailText = T(4, "x")],
      [Plain EXCEPT !.tailText = Prose,
                    !.style = Style("inline-block", "visible", "visible", "visible")],
      [Plain EXCEPT !.leadText = T(1, "x"), !.tailText = Prose] }

BodyInline ==
    [Body EXCEPT !.leadText = T(1, "x"),
                 !.style = Style("inline", "visible", "visible", "visible")]

TextLayouts ==
    { <<Chain, Body>>, <<LastIsSibling, Body>>, <<Chain, BodyInline>> }

InitText ==
    \E layout \in TextLayouts, rest \in Styled(TextProfiles) :
        /\ parentElement = layout[1]
        /\ nodes = Document(Html, layout[2], rest)

Init ==
    /\ InitVisibility \/ InitGeometry \/ InitText
    /\ pc = "loop"
    /\ i = 1
    /\ targets = <<>>
    /\ cache = <<>>
    /\ calls = 0
    /\ str = <<>>
    /\ maxLength = 0
    /\ out = <<>>

Next == SkipInTextBlock \/ SkipNoVisibleClientRects \/ PushTarget \/ ReturnTargets

Spec == Init /\ [][Next]_vars

\* memoize(nodeIsVisible, args => args[0]) queried over one snapshot
MemoProfiles ==
    { Plain,
      [Plain EXCEPT !.style = Style("none", "visible", "visible", "visible")],
      [Plain EXCEPT !.clientWidth = 0,
                    !.style = Style("block", "visible", "hidden", "visible")] }

InitMemo ==
    /\ parentElement \in ParentMaps
    /\ \E html \in {Html, HtmlNotDisplayed}, rest \in [3..NumElements -> MemoProfiles] :
          nodes = Document(html, Body, rest)
    /\ pc = "memo"
    /\ i = 1
    /\ targets = <<>>
    /\ cache = <<>>
    /\ calls = 0
    /\ str = <<>>
    /\ maxLength = 0
    /\ out = <<>>

NextMemo == CallHit \/ CallMiss

SpecMemo == InitMemo /\ [][NextMemo]_vars

\* truncate over every short string and small bound
Chars == {"a", "b"}
Strings == UNION { [1..n -> Chars] : n \in 0..MaxStrLen }

InitTruncate ==
    /\ parentElement = [e \in Elements |-> e - 1]
    /\ nodes = Document(Html, Body, [e \in 3..NumElements |-> Plain])
    /\ pc = "truncate"
    /\ i = 1
    /\ targets = <<>>
    /\ cache = <<>>
    /\ calls = 0
    /\ str \in Strings
    /\ maxLength \in 0..MaxLength
    /\ out = <<>>

NextTruncate == TruncateKeeps \/ TruncateCuts

SpecTruncate == InitTruncate /\ [][NextTruncate]_vars

(***************************************************************************)
(* Vocabulary of the properties, stated on the snapshot itself.            *)
(***************************************************************************)
RECURSIVE AncestorsOf(_)
AncestorsOf(n) ==
    IF parentElement[n] = null THEN {}
    ELSE {parentElement[n]} \cup AncestorsOf(parentElement[n])

\* the ancestors from the parent up to, but excluding, the root element
AncestorsBelowRoot(n) == AncestorsOf(n) \ {ROOT}

Clips(a) == nodes[a].style.overflowY # "visible"

Within(outer, r) ==
    r.left >= outer.left /\ r.right <= outer.right
        /\ r.top >= outer.top /\ r.bottom <= outer.bottom

Range(seq) == { seq[k] : k \in 1..Len(seq) }

\* the elements gatherTapTargets has already run its callback on
Processed == { getElementsInDocument[k] : k \in 1..(i - 1) }

\* the element a TapTarget describes
NodeOf(target) == CHOOSE e \in Elements : getNodePath(e) = target.path

Emitted(n) == \E k \in 1..Len(targets) : targets[k].path = getNodePath(n)

\* C1: every TapTarget in the sequence gatherTapTargets accumulates and returns
\* has a clientRects sequence with at least one rectangle
C1_NonEmptyClientRects ==
    \A k \in 1..Len(targets) : Len(targets[k].clientRects) >= 1

C1_Witness ==
    /\ pc = "done"
    /\ Len(targets) >= 1
    /\ \E n \in Processed : ~nodeIsInTextBlock(n) /\ getVisibleClientRects(n) = <<>>

\* C2: every rectangle of an emitted target (what getVisibleClientRects, and so
\* filterClientRectsWithinAncestorsVisibleScrollArea, returned for its node) lies
\* fully inside the bounding rectangle of every ancestor of the node, from its
\* parent up to but excluding the root, whose overflowY is not "visible"
C2_ContainedInEveryClippingAncestor ==
    \A k \in 1..Len(targets) :
        \A a \in AncestorsBelowRoot(NodeOf(targets[k])) :
            Clips(a) =>
                \A r \in Range(targets[k].clientRects) :
                    Within(nodes[a].boundingClientRect, r)

\* C3: nodeIsVisible(node) is false whenever the node itself, or an ancestor of it
\* strictly below the root element, is not displayed by its own style, and true
\* when no node of that chain is
NotDisplayedByOwnStyle(m) ==
    \/ nodes[m].style.display = "none"
    \/ /\ nodes[m].style.visibility = "collapse"
       /\ nodes[m].tagName \in {"TR", "TBODY", "COL", "COLGROUP"}
    \/ /\ nodes[m].style.display \in {"block", "inline-block"}
       /\ \/ nodes[m].clientWidth = 0 /\ nodes[m].style.overflowX = "hidden"
          \/ nodes[m].clientHeight = 0 /\ nodes[m].style.overflowY = "hidden"

C3_VisibleIffChainDisplayed ==
    \A n \in Elements :
        nodeIsVisible(n) =
            (\A m \in {n} \cup AncestorsBelowRoot(n) : ~NotDisplayedByOwnStyle(m))

C3_Witness ==
    \E n \in Processed :
        /\ ~NotDisplayedByOwnStyle(n)
        /\ ~NotDisplayedByOwnStyle(parentElement[n])
        /\ \E a \in AncestorsBelowRoot(n) : NotDisplayedByOwnStyle(a)
        /\ ~nodeIsInTextBlock(n)
        /\ ~Emitted(n)

\* the length of the text content of an element, counted on the snapshot
RECURSIVE TextLength(_, _)
TextLength(n, e) ==
    IF e > NumElements THEN Len(nodes[n].leadText)
    ELSE (IF parentElement[e] = n
          THEN TextLength(e, 1) + Len(nodes[e].tailText) ELSE 0)
         + TextLength(n, e + 1)

\* how much longer the text of the parent of n is than the text of n
ParentTextExcess(n) == TextLength(parentElement[n], 1) - TextLength(n, 1)

NonBlank(text) == \E k \in 1..Len(text) : text[k] # " "

\* the parent of n has a direct child text node with non-white-space content
ParentHasProse(n) ==
    \/ NonBlank(nodes[parentElement[n]].leadText)
    \/ \E c \in Elements :
          parentElement[c] = parentElement[n] /\ NonBlank(nodes[c].tailText)

InlineDisplay(n) == nodes[n].style.display \in {"inline", "inline-block"}

\* C4 as stated: for an inline node with a parent whose text is less than 5
\* characters longer than the node's, nodeIsInTextBlock is false
C4_FalseWhenParentTextMostlyNode ==
    \A n \in Processed :
        (InlineDisplay(n) /\ parentElement[n] # null /\ ParentTextExcess(n) < 5)
            => ~nodeIsInTextBlock(n)

\* C4 as amended: for such a node hasTextNodeSiblingsFormingTextBlock is false and
\* nodeIsInTextBlock gives what it gives for the parent
C4_DefersToParent ==
    \A n \in Elements :
        (InlineDisplay(n) /\ parentElement[n] # null /\ ParentTextExcess(n) < 5)
            => /\ ~hasTextNodeSiblingsFormingTextBlock(n)
               /\ nodeIsInTextBlock(n) = nodeIsInTextBlock(parentElement[n])

C4_Witness ==
    \E n \in Processed :
        /\ InlineDisplay(n) /\ ParentTextExcess(n) < 5
        /\ ParentHasProse(n)
        /\ nodeIsInTextBlock(n)
        /\ ~Emitted(n)

\* C5: a candidate that is inline, whose parent's text is at least 5 characters
\* longer than its own and whose parent has a direct child text node with
\* non-white-space content, is in a text block, and no TapTarget is emitted for it
C5_InlineAmongProseExcluded ==
    \A n \in Range(getElementsInDocument) :
        (/\ InlineDisplay(n)
         /\ parentElement[n] # null
         /\ ParentTextExcess(n) >= 5
         /\ ParentHasProse(n))
            => nodeIsInTextBlock(n) /\ ~Emitted(n)

C5_Witness ==
    \E n \in Processed :
        /\ InlineDisplay(n)
        /\ ParentTextExcess(n) = 5
        /\ ParentHasProse(n)
        /\ getVisibleClientRects(n) # <<>>
        /\ ~Emitted(n)
        /\ pc = "done"

\* C6: for a visible node getVisibleClientRects is empty when the rectangles
\* collected from the node and its descendants are all 0x0 (or there are none)
\* and either both overflows are "hidden" or the node has no element children;
\* otherwise it is the scroll-clip filter applied to the collected rectangles
AllZero(rects) == \A r \in Range(rects) : r.width = 0 /\ r.height = 0

NoElementChildren(n) == \A c \in Elements : parentElement[c] # n

BothOverflowsHidden(n) ==
    nodes[n].style.overflowX = "hidden" /\ nodes[n].style.overflowY = "hidden"

C6_EmptyBoxOrFiltered ==
    \A n \in Elements :
        nodeIsVisible(n) =>
            LET collected == getClientRects(n, TRUE)
            IN  getVisibleClientRects(n) =
                    IF /\ AllZero(collected)
                       /\ BothOverflowsHidden(n) \/ NoElementChildren(n)
                    THEN <<>>
                    ELSE filterClientRectsWithinAncestorsVisibleScrollArea(n, collected)

C6_Witness ==
    /\ pc = "done"
    /\ \E n \in Processed :
          /\ nodeIsVisible(n)
          /\ getClientRects(n, TRUE) # <<>>
          /\ AllZero(getClientRects(n, TRUE))
          /\ ~BothOverflowsHidden(n)
          /\ NoElementChildren(n)
          /\ ~Emitted(n)
    /\ \E n \in Processed :
          /\ AllZero(getClientRects(n, TRUE))
          /\ ~BothOverflowsHidden(n)
          /\ ~NoElementChildren(n)
          /\ Emitted(n)

\* C7: the targets are an order-preserving subsequence of the query result: one
\* TapTarget, in query order, for each processed candidate that is not in a text
\* block and has visible client rects, and none for any other
Kept ==
    SelectSeq(SubSeq(getElementsInDocument, 1, i - 1),
              LAMBDA n : ~nodeIsInTextBlock(n) /\ getVisibleClientRects(n) # <<>>)

C7_OrderPreservingSubsequence ==
    LET kept == Kept
    IN  /\ Len(targets) = Len(kept)
        /\ \A k \in 1..Len(targets) :
              /\ targets[k].path = getNodePath(kept[k])
              /\ targets[k].clientRects = getVisibleClientRects(kept[k])
        /\ \A j, k \in 1..Len(targets) : j # k => targets[j].path # targets[k].path

C7_Witness ==
    /\ pc = "done"
    /\ Len(targets) >= 2
    /\ Len(targets) < Len(getElementsInDocument)
    /\ \E n \in Processed : nodeIsInTextBlock(n)

\* C10: the root element's overflowY and bounding rectangle never remove a
\* rectangle: whatever the filter drops for a node below BODY lies outside the
\* bounding rectangle of a clipping ancestor below the root
C10_RootNeverClips ==
    \A n \in Processed :
        (BODY \in AncestorsOf(n) /\ nodeIsVisible(n)) =>
            \A r \in Range(getClientRects(n, TRUE)) :
                r \notin Range(filterClientRectsWithinAncestorsVisibleScrollArea(
                                   n, getClientRects(n, TRUE)))
                    => \E a \in AncestorsBelowRoot(n) :
                           Clips(a) /\ ~Within(nodes[a].boundingClientRect, r)

\* C8: for a bound n >= 1, truncate(s, n) is at most n long; it is s when s is at
\* most n long, and otherwise the first n-1 characters of s and one ellipsis
C8_TruncateWithinBound ==
    (pc = "truncated" /\ maxLength >= 1) =>
        /\ Len(out) <= maxLength
        /\ Len(str) <= maxLength => out = str
        /\ Len(str) > maxLength =>
              /\ Len(out) = maxLength
              /\ \A k \in 1..(maxLength - 1) : out[k] = str[k]
              /\ out[maxLength] = Ellipsis

C8_Witness ==
    pc = "truncated" /\ maxLength = 1 /\ Len(str) = 3 /\ out = <<Ellipsis>>

\* C9: over one snapshot the memoized visibility check returns for every node
\* what nodeIsVisible returns, whatever was asked before; a false result is
\* stored in the cache and never served from it
C9_MemoizedAgreesWithNodeIsVisible ==
    /\ \A key \in DOMAIN cache : cache[key] = nodeIsVisible(key)
    /\ calls > 0 =>
          /\ out.value = nodeIsVisible(out.arg)
          /\ out.hit => out.value = TRUE
          /\ out.arg \in DOMAIN cache

C9_Witness ==
    /\ calls > 1
    /\ out.stored /\ ~out.hit /\ out.value = FALSE
    /\ \E key \in DOMAIN cache : cache[key] = TRUE

====
